---------------------------- MODULE Spec2Model ----------------------------
(***************************************************************************)
(* Model of the choices e2e audit tooling:                                 *)
(*   - report.py: summarize_playwright_json, write_junit_xml,              *)
(*     write_markdown (SpecReport);                                        *)
(*   - cli.py / supabase_utils.py: the orchestrator and run_steps          *)
(*     (SpecCli);                                                          *)
(*   - scripts/rls_smoke.py: the row-level-security smoke check            *)
(*     (SpecSmoke).                                                        *)
(*                                                                         *)
(* Strings whose contents the code inspects (titles) are sequences of      *)
(* one-character strings; all other strings are TLA+ strings.  A Python    *)
(* None / missing dictionary key is the value Absent.                      *)
(***************************************************************************)
EXTENDS Integers, Sequences, FiniteSets, TLC

VARIABLES
    pc,              \* position of the running program
    exitCode,        \* process exit status once pc = "Terminal", else -1
    \* report.py
    tree,            \* the "suites" list of the JSON report on disk
    summary,         \* << >> until summarize returned, then << Summary >>
    junit,           \* << >> until junit.xml is written, then << document >>
    markdown,        \* << >> until SUMMARY.md is written, then << lines >>
    \* cli.py, supabase_utils.py
    nPre,            \* number of commands of cfg["pre"]
    nPost,           \* number of commands of cfg["post"]
    stepIdx,         \* run_steps: the command to run next
    executed,        \* the subprocesses run so far, with their exit codes
    rc,              \* os.system's status of the runner, -1 before it ran
    existsArtifacts, \* <artifacts>/playwright-report.json exists
    existsDefault,   \* <cwd>/playwright-report.json exists
    reportPath,      \* where the report was found: "artifacts", "default", "none"
    \* scripts/rls_smoke.py
    configured,      \* SUPABASE_URL, SUPABASE_ANON_KEY and SUPABASE_SERVICE_ROLE_KEY set
    anonResp,        \* what the API answers to the anon key
    srResp,          \* what the API answers to the service_role key
    events,          \* the requests issued and completed so far
    anonResult,      \* << >> or << (anon_data, anon_err) >>
    srResult,        \* << >> or << (sr_data, sr_err) >>
    logged           \* the line the script printed last

reportVars == <<tree, summary, junit, markdown>>

cliVars == <<nPre, nPost, stepIdx, executed, rc, existsArtifacts, existsDefault, reportPath>>

smokeVars == <<configured, anonResp, srResp, events, anonResult, srResult, logged>>

vars == <<pc, exitCode, reportVars, cliVars, smokeVars>>

\* Total number of nodes (suites, specs, tests, results) of an enumerated tree.
MaxNodes == 5

Absent == "<absent>"

Min(S) == CHOOSE x \in S : \A y \in S : x <= y

(***************************************************************************)
(* Input domain: result trees as the runner's JSON reporter writes them.   *)
(***************************************************************************)

ErrorAttachments ==
    << [name |-> "error", body |-> ""], [name |-> "error", body |-> "boom"] >>

\* Result nodes: every status the code distinguishes, an unlisted one
\* ("flaky") and a missing one; failed results with and without error text.
Results ==
    { [status |-> s, duration |-> 1200, attachments |-> << >>] :
        s \in {"passed", "skipped", "timedOut", "interrupted", "flaky", Absent} }
    \cup { [status |-> "failed", duration |-> 500, attachments |-> a] :
             a \in { << >>, ErrorAttachments } }

\* Spec headers: titlePath present; only a title, with irregular whitespace;
\* an empty titlePath beside a title (the fallback of the title rule).
SpecHeaders ==
    { [hasTitlePath |-> TRUE, titlePath |-> << <<"e">>, <<"A">> >>,
       hasTitle |-> TRUE, title |-> <<"A">>],
      [hasTitlePath |-> FALSE, titlePath |-> << >>,
       hasTitle |-> TRUE, title |-> <<"e", " ", " ", "A">>],
      [hasTitlePath |-> TRUE, titlePath |-> << >>,
       hasTitle |-> TRUE, title |-> <<"B">>] }

MkSpec(h, ts) ==
    [hasTitlePath |-> h.hasTitlePath, titlePath |-> h.titlePath,
     hasTitle |-> h.hasTitle, title |-> h.title, tests |-> ts]

RECURSIVE TestSeqs(_), SpecSeqs(_), SuiteSeqs(_), SuitesOfSize(_)

ResultSeqs(n) == [1..n -> Results]

TestsOfSize(n) ==
    IF n < 1 THEN {} ELSE { [results |-> rs] : rs \in ResultSeqs(n - 1) }

TestSeqs(n) ==
    IF n = 0 THEN { << >> }
    ELSE UNION { { <<t>> \o rest : t \in TestsOfSize(k), rest \in TestSeqs(n - k) } :
                   k \in 1..n }

SpecsOfSize(n) ==
    IF n < 1 THEN {} ELSE { MkSpec(h, ts) : h \in SpecHeaders, ts \in TestSeqs(n - 1) }

SpecSeqs(n) ==
    IF n = 0 THEN { << >> }
    ELSE UNION { { <<s>> \o rest : s \in SpecsOfSize(k), rest \in SpecSeqs(n - k) } :
                   k \in 1..n }

SuitesOfSize(n) ==
    IF n < 1 THEN {}
    ELSE UNION { { [specs |-> sp, suites |-> su] :
                     sp \in SpecSeqs(a), su \in SuiteSeqs(n - 1 - a) } :
                   a \in 0..(n - 1) }

SuiteSeqs(n) ==
    IF n = 0 THEN { << >> }
    ELSE UNION { { <<s>> \o rest : s \in SuitesOfSize(k), rest \in SuiteSeqs(n - k) } :
                   k \in 1..n }

OneResultSpec(h, r) == MkSpec(h, << [results |-> <<r>>] >>)

HeaderA == CHOOSE h \in SpecHeaders : h.hasTitlePath /\ h.titlePath # << >>
HeaderB == CHOOSE h \in SpecHeaders : h.hasTitlePath /\ h.titlePath = << >>

\* A tree shaped as the one of tests/test_report.py: one suite, a passed spec
\* and a failed spec whose error attachment reads "boom".
TestReportTree ==
    << [specs |-> << OneResultSpec(HeaderA,
                        [status |-> "passed", duration |-> 1200, attachments |-> << >>]),
                     OneResultSpec(HeaderB,
                        [status |-> "failed", duration |-> 500,
                         attachments |-> << [name |-> "error", body |-> "boom"] >>]) >>,
        suites |-> << >>] >>

\* Two specs with the same title, both failed, only the second with error text.
SharedTitleTree ==
    << [specs |-> << OneResultSpec(HeaderA,
                        [status |-> "failed", duration |-> 500, attachments |-> << >>]) >>,
        suites |-> << [specs |-> << OneResultSpec(HeaderA,
                                      [status |-> "failed", duration |-> 500,
                                       attachments |-> ErrorAttachments]) >>,
                       suites |-> << >>] >>] >>

Result(st) == [status |-> st, duration |-> 1200, attachments |-> << >>]

\* Three levels of suites with results at each level: a passed one; one with
\* an unlisted and one with a missing status (two tests of one spec); a
\* failed and a timed-out one (two results of one test, a retry).
DeepTree ==
    << [specs |-> << OneResultSpec(HeaderA, Result("passed")) >>,
        suites |->
          << [specs |-> << MkSpec(HeaderB, << [results |-> << Result("flaky") >>],
                                             [results |-> << Result(Absent) >>] >>) >>,
              suites |->
                << [specs |-> << MkSpec(HeaderA,
                                   << [results |-> << Result("failed"),
                                                      Result("timedOut") >>] >>) >>,
                    suites |-> << >>] >>] >>] >>

\* Every tree of at most MaxNodes nodes, and the larger ones above.
ResultTrees ==
    UNION { SuiteSeqs(n) : n \in 0..MaxNodes }
    \cup { TestReportTree, SharedTitleTree, DeepTree }

(***************************************************************************)
(* report.py: summarize_playwright_json                                    *)
(***************************************************************************)

RECURSIVE Split(_), Join(_), WalkResults(_, _, _), WalkTests(_, _, _),
          WalkSpecs(_, _), walk_suites(_, _)

IsSpace(c) == c = " "

\* str.split(): the maximal runs of non-whitespace characters.
Split(s) ==
    IF s = << >> THEN << >>
    ELSE IF IsSpace(Head(s)) THEN Split(Tail(s))
    ELSE LET rest == Split(Tail(s))
         IN IF Len(s) > 1 /\ ~IsSpace(s[2])
            THEN << <<Head(s)>> \o Head(rest) >> \o Tail(rest)
            ELSE << <<Head(s)>> >> \o rest

\* " ".join(parts)
Join(parts) ==
    IF parts = << >> THEN << >>
    ELSE IF Len(parts) = 1 THEN Head(parts)
    ELSE Head(parts) \o <<" ">> \o Join(Tail(parts))

RawTitle(spec) == IF spec.hasTitle THEN spec.title ELSE << >>

\* spec_title, line 20
SpecTitle(spec) ==
    Join(IF spec.hasTitlePath THEN spec.titlePath ELSE Split(RawTitle(spec)))

\* spec_title or spec.get("title", ""), lines 36 and 43
DisplayTitle(spec) ==
    IF SpecTitle(spec) # << >> THEN SpecTitle(spec) ELSE RawTitle(spec)

\* lines 30-34: the body of the first attachment named "error" with a body
FirstError(attachments) ==
    LET hits == { i \in 1..Len(attachments) :
                    attachments[i].name = "error" /\ attachments[i].body # "" }
    IN IF hits = {} THEN Absent ELSE attachments[Min(hits)].body

\* Faulty variant: only "skipped" itself is counted as skipped.
SkippedStatusesOnlySkipped == {"skipped"}

\* line 40
SkippedStatuses == {"skipped", "timedOut", "interrupted"}

\* status or "unknown", line 45
RecordedStatus(status) == IF status \in {Absent, ""} THEN "unknown" ELSE status

\* line 25
CountTotal(acc, r) == acc.total + 1

\* lines 26-27
CountPassed(acc, r) == IF r.status = "passed" THEN acc.passed + 1 ELSE acc.passed

\* lines 28-29
CountFailed(acc, r) ==
    IF r.status # "passed" /\ r.status = "failed" THEN acc.failed + 1 ELSE acc.failed

\* lines 40-41
CountSkipped(acc, r) ==
    IF r.status \notin {"passed", "failed"} /\ r.status \in SkippedStatuses
    THEN acc.skipped + 1 ELSE acc.skipped

\* Faulty variant: the failure record carries the raw title, not the resolved one.
AppendFailureRawTitle(acc, spec, r) ==
    IF r.status # "passed" /\ r.status = "failed"
    THEN Append(acc.failures,
                [title |-> RawTitle(spec), duration_ms |-> r.duration,
                 error |-> FirstError(r.attachments)])
    ELSE acc.failures

\* lines 35-39
AppendFailure(acc, spec, r) ==
    IF r.status # "passed" /\ r.status = "failed"
    THEN Append(acc.failures,
                [title |-> DisplayTitle(spec), duration_ms |-> r.duration,
                 error |-> FirstError(r.attachments)])
    ELSE acc.failures

\* lines 42-46
AppendSpec(acc, spec, r) ==
    Append(acc.specs,
           [title |-> DisplayTitle(spec), duration_ms |-> r.duration,
            status |-> RecordedStatus(r.status)])

\* lines 23-46: the body of the innermost loop, for one result r of spec
VisitResult(acc, spec, r) ==
    [total |-> CountTotal(acc, r),
     passed |-> CountPassed(acc, r),
     failed |-> CountFailed(acc, r),
     skipped |-> CountSkipped(acc, r),
     specs |-> AppendSpec(acc, spec, r),
     failures |-> AppendFailure(acc, spec, r)]

\* line 22: for r in t.get("results", [])
WalkResults(acc, spec, rs) ==
    IF rs = << >> THEN acc
    ELSE WalkResults(VisitResult(acc, spec, Head(rs)), spec, Tail(rs))

\* line 21: for t in spec.get("tests", [])
WalkTests(acc, spec, ts) ==
    IF ts = << >> THEN acc
    ELSE WalkTests(WalkResults(acc, spec, Head(ts).results), spec, Tail(ts))

\* line 19: for spec in s.get("specs", [])
WalkSpecs(acc, sps) ==
    IF sps = << >> THEN acc
    ELSE WalkSpecs(WalkTests(acc, Head(sps), Head(sps).tests), Tail(sps))

\* Faulty variant: the suites nested in s are not visited.
WalkNestedSkipped(acc, s) == acc

\* line 47: the recursion into the suites nested in s
WalkNested(acc, s) == walk_suites(acc, s.suites)

\* lines 14-47: for s in suites: the specs of s, then the suites nested in s
walk_suites(acc, suites) ==
    IF suites = << >> THEN acc
    ELSE walk_suites(WalkNested(WalkSpecs(acc, Head(suites).specs), Head(suites)),
                     Tail(suites))

EmptySummary ==
    [total |-> 0, passed |-> 0, failed |-> 0, skipped |-> 0,
     specs |-> << >>, failures |-> << >>]

\* lines 7-57
summarize_playwright_json(suites) == walk_suites(EmptySummary, suites)

(***************************************************************************)
(* report.py: write_junit_xml and write_markdown                           *)
(***************************************************************************)

RECURSIVE Str(_)

Digit(d) == <<"0", "1", "2", "3", "4", "5", "6", "7", "8", "9">>[d + 1]

\* str(n) for n >= 0: the decimal digits of n
Str(n) == IF n < 10 THEN <<Digit(n)>> ELSE Str(n \div 10) \o <<Digit(n % 10)>>

\* f"{ms/1000:.3f}", line 70
Seconds(ms) ==
    Str(ms \div 1000) \o <<".">>
    \o <<Digit((ms % 1000) \div 100), Digit((ms % 100) \div 10), Digit(ms % 10)>>

\* lines 73-77: the error text of the first failure with the spec's title
FailureMessage(s, spec) ==
    LET hits == { i \in 1..Len(s.failures) : s.failures[i].title = spec.title }
    IN IF hits = {} THEN "Test failed"
       ELSE IF s.failures[Min(hits)].error \in {Absent, ""} THEN "Test failed"
       ELSE s.failures[Min(hits)].error

\* line 79: the statuses that get a <skipped/> child
HasSkippedElement(status) == status = "skipped"

\* lines 68-80: one <testcase>; failure is << >> or << message >>
TestCase(s, spec) ==
    [name |-> spec.title,
     time |-> Seconds(spec.duration_ms),
     failure |-> IF spec.status = "failed" THEN << FailureMessage(s, spec) >> ELSE << >>,
     skipped |-> spec.status # "failed" /\ HasSkippedElement(spec.status)]

\* lines 59-81; the timestamp attribute (wall-clock time) is left out
write_junit_xml(s) ==
    [name |-> "choices-e2e",
     tests |-> Str(s.total),
     failures |-> Str(s.failed),
     skipped |-> Str(s.skipped),
     testcases |-> [i \in 1..Len(s.specs) |-> TestCase(s, s.specs[i])]]

\* lines 89-92: the lines of one failure
FailureLines(f) ==
    << [kind |-> "failure", title |-> f.title, duration_ms |-> f.duration_ms] >>
    \o (IF f.error \in {Absent, ""} THEN << >>
        ELSE << [kind |-> "error", text |-> f.error] >>)

RECURSIVE AllFailureLines(_)

AllFailureLines(fs) ==
    IF fs = << >> THEN << >> ELSE FailureLines(Head(fs)) \o AllFailureLines(Tail(fs))

\* lines 83-93
write_markdown(s) ==
    << [kind |-> "heading"],
       [kind |-> "counters", total |-> s.total, passed |-> s.passed,
        failed |-> s.failed, skipped |-> s.skipped] >>
    \o (IF s.failures # << >>
        THEN << [kind |-> "failures-heading"] >> \o AllFailureLines(s.failures)
        ELSE << >>)

(***************************************************************************)
(* SpecReport: a report is read, summarized and rendered.                  *)
(***************************************************************************)

\* The orchestrator's variables while it is not running.
CliIdle ==
    /\ nPre = 0 /\ nPost = 0 /\ stepIdx = 0 /\ executed = << >> /\ rc = -1
    /\ existsArtifacts = FALSE /\ existsDefault = FALSE /\ reportPath = "none"

NoResponse == [kind |-> "none", status |-> 0, isList |-> FALSE, rows |-> << >>]

\* The smoke check's variables while it is not running.
SmokeIdle ==
    /\ configured = FALSE /\ anonResp = NoResponse /\ srResp = NoResponse
    /\ events = << >> /\ anonResult = << >> /\ srResult = << >> /\ logged = "none"

InitReport ==
    /\ pc = "Parsed"
    /\ exitCode = -1
    /\ tree \in ResultTrees
    /\ summary = << >>
    /\ junit = << >>
    /\ markdown = << >>
    /\ CliIdle
    /\ SmokeIdle

\* cli.py line 68
Summarize ==
    /\ pc = "Parsed"
    /\ summary' = << summarize_playwright_json(tree) >>
    /\ pc' = "Summarized"
    /\ UNCHANGED <<exitCode, tree, junit, markdown, cliVars, smokeVars>>

\* cli.py line 69
WriteMarkdown ==
    /\ pc = "Summarized"
    /\ markdown' = << write_markdown(summary[1]) >>
    /\ pc' = "MarkdownWritten"
    /\ UNCHANGED <<exitCode, tree, summary, junit, cliVars, smokeVars>>

\* cli.py line 70
WriteJunit ==
    /\ pc = "MarkdownWritten"
    /\ junit' = << write_junit_xml(summary[1]) >>
    /\ pc' = "Rendered"
    /\ UNCHANGED <<exitCode, tree, summary, markdown, cliVars, smokeVars>>

NextReport == Summarize \/ WriteMarkdown \/ WriteJunit

SpecReport == InitReport /\ [][NextReport]_vars

(***************************************************************************)
(* Properties of the summarizer and the renderers (SpecReport)             *)
(***************************************************************************)

RECURSIVE FlatResults(_), Concat(_)

Concat(seqs) == IF seqs = << >> THEN << >> ELSE Head(seqs) \o Concat(Tail(seqs))

ResultsOfSpec(spec) == Concat([j \in 1..Len(spec.tests) |-> spec.tests[j].results])

\* The Result nodes of a list of suites, read off the tree's structure.
FlatResults(suites) ==
    IF suites = << >> THEN << >>
    ELSE Concat([i \in 1..Len(Head(suites).specs) |-> ResultsOfSpec(Head(suites).specs[i])])
         \o FlatResults(Head(suites).suites)
         \o FlatResults(Tail(suites))

NumResults(suites) == Len(FlatResults(suites))

NumWithStatus(suites, S) ==
    Cardinality({ i \in 1..NumResults(suites) : FlatResults(suites)[i].status \in S })

NumRecorded(s, S) == Cardinality({ i \in 1..Len(s.specs) : s.specs[i].status \in S })

BucketStatuses == {"passed", "failed", "skipped", "timedOut", "interrupted"}

RecordedStatuses == BucketStatuses \cup {"flaky", "unknown"}

\* C1: the summary's total is the number of Result nodes of the whole tree,
\* whatever the nesting, and specs holds exactly one record per Result node
\* (as many records as nodes, and as many of each status as there are nodes
\* of that status, a missing status being recorded as "unknown").
C1_TotalCountsEveryResult ==
    summary # << >> =>
        /\ summary[1].total = NumResults(tree)
        /\ Len(summary[1].specs) = NumResults(tree)
        /\ \A st \in RecordedStatuses :
             NumRecorded(summary[1], {st})
               = NumWithStatus(tree, IF st = "unknown" THEN {Absent} ELSE {st})

\* The summary of the three-level tree: five results, four of them in nested
\* suites, two of those at the third level.
C1_Witness ==
    /\ summary # << >>
    /\ tree = DeepTree
    /\ NumResults(tree[1].suites) = 4
    /\ NumResults(tree[1].suites[1].suites) = 2
    /\ summary[1].total = 5
    /\ Len(summary[1].specs) = 5

\* C2: passed + failed + skipped <= total, with equality exactly when every
\* result's status is one of passed, failed, skipped, timedOut, interrupted;
\* each result with another or a missing status adds to total only.
C2_BucketsBelowTotal ==
    summary # << >> =>
        LET s == summary[1]
            buckets == s.passed + s.failed + s.skipped
        IN /\ buckets <= s.total
           /\ (buckets = s.total)
                <=> (\A i \in 1..NumResults(tree) :
                       FlatResults(tree)[i].status \in BucketStatuses)
           /\ s.total - buckets = NumResults(tree) - NumWithStatus(tree, BucketStatuses)

\* A summarized tree with a timedOut result (in a bucket) and a result
\* without status (in none).
C2_Witness ==
    /\ summary # << >>
    /\ NumWithStatus(tree, {"timedOut"}) = 1
    /\ NumWithStatus(tree, {Absent}) = 1
    /\ summary[1].total = 2
    /\ summary[1].skipped = 1

\* C3: every failures entry has a specs entry of the same title with status
\* "failed", every specs entry with status "failed" has a failures entry of
\* the same title, and failures has as many entries as the failed counter.
C3_FailuresMatchSpecs ==
    summary # << >> =>
        LET s == summary[1]
        IN /\ \A i \in 1..Len(s.failures) :
                \E j \in 1..Len(s.specs) :
                    s.specs[j].title = s.failures[i].title /\ s.specs[j].status = "failed"
           /\ \A j \in 1..Len(s.specs) :
                s.specs[j].status = "failed" =>
                    \E i \in 1..Len(s.failures) : s.failures[i].title = s.specs[j].title
           /\ Len(s.failures) = s.failed

\* The summary of the test suite's tree: one failure, with error text "boom",
\* beside a passed spec of another title.
C3_Witness ==
    /\ summary # << >>
    /\ tree = TestReportTree
    /\ summary[1].total = 2 /\ summary[1].passed = 1 /\ summary[1].failed = 1
    /\ summary[1].failures[1].error = "boom"
    /\ summary[1].specs[1].title # summary[1].specs[2].title

NumSkippedElements(doc) ==
    Cardinality({ i \in 1..Len(doc.testcases) : doc.testcases[i].skipped })

NumFailureElements(doc) ==
    Cardinality({ i \in 1..Len(doc.testcases) : doc.testcases[i].failure # << >> })

\* C10: in the junit document written for a summary, the testsuite's skipped
\* attribute is the number of testcases with a skipped child and its failures
\* attribute the number of testcases with a failure child, for every mix of
\* statuses.
C10_JunitCountsMatchChildren ==
    junit # << >> =>
        /\ junit[1].skipped = Str(NumSkippedElements(junit[1]))
        /\ junit[1].failures = Str(NumFailureElements(junit[1]))

(***************************************************************************)
(* supabase_utils.py: run_steps; cli.py: main (SpecCli)                    *)
(***************************************************************************)

\* Longest list of pre-steps and of post-steps.
MaxSteps == 2

\* Largest exit code a subprocess returns.
MaxExit == 2

ExitCodes == 0..MaxExit

\* A passed result in a suite nested in another.
PassedTree ==
    << [specs |-> << >>,
        suites |-> << [specs |-> << OneResultSpec(HeaderA,
                                      [status |-> "passed", duration |-> 1200,
                                       attachments |-> << >>]) >>,
                       suites |-> << >>] >>] >>

\* A result that timed out: the runner exits non-zero, nothing is "failed".
TimedOutTree ==
    << [specs |-> << OneResultSpec(HeaderB,
                        [status |-> "timedOut", duration |-> 1200, attachments |-> << >>]) >>,
        suites |-> << >>] >>

\* The reports the runner leaves on disk in SpecCli.
CliReports == { << >>, PassedTree, TimedOutTree, TestReportTree, SharedTitleTree }

InitCli ==
    /\ pc = "RunPre"
    /\ exitCode = -1
    /\ tree = << >>
    /\ summary = << >>
    /\ junit = << >>
    /\ markdown = << >>
    /\ nPre \in 0..MaxSteps
    /\ nPost \in 0..MaxSteps
    /\ stepIdx = 1
    /\ executed = << >>
    /\ rc = -1
    /\ existsArtifacts \in BOOLEAN      \* a report left by an earlier run
    /\ existsDefault \in BOOLEAN
    /\ reportPath = "none"
    /\ SmokeIdle

\* Faulty variant: a failing step does not stop run_steps.
StepAbortsNever(code) == FALSE

\* supabase_utils.py line 13
StepAborts(code) == code # 0

\* supabase_utils.py lines 11-14: one iteration of run_steps' loop; the
\* command's exit code is the environment's choice.
RunStep(phase, n) ==
    /\ pc = phase
    /\ stepIdx <= n
    /\ \E code \in ExitCodes :
         /\ executed' = Append(executed, [phase |-> phase, idx |-> stepIdx, code |-> code])
         /\ IF StepAborts(code)
            THEN /\ pc' = "Terminal"        \* raise SystemExit(code)
                 /\ exitCode' = code
                 /\ stepIdx' = stepIdx
            ELSE /\ pc' = pc
                 /\ exitCode' = exitCode
                 /\ stepIdx' = stepIdx + 1
    /\ UNCHANGED <<reportVars, nPre, nPost, rc, existsArtifacts, existsDefault,
                   reportPath, smokeVars>>

\* run_steps returns: every command ran and exited zero (or there was none)
StepsDone(phase, n, next) ==
    /\ pc = phase
    /\ stepIdx > n
    /\ pc' = next
    /\ stepIdx' = 1
    /\ UNCHANGED <<exitCode, reportVars, nPre, nPost, executed, rc, existsArtifacts,
                   existsDefault, reportPath, smokeVars>>

\* cli.py lines 38-41
RunPreStep == RunStep("RunPre", nPre)

PreStepsDone == StepsDone("RunPre", nPre, "InvokeRunner")

\* Faulty variant: a runner that exits non-zero ends the run.
RunnerAbortsOnFailure(status) == status # 0

\* cli.py lines 57-58: a non-zero status of the runner is only reported
RunnerAborts(status) == FALSE

\* cli.py lines 44-58: os.system runs the runner; its exit code, and the
\* report files it leaves, are the environment's choice.
InvokeRunner ==
    /\ pc = "InvokeRunner"
    /\ \E code \in ExitCodes, a \in BOOLEAN, d \in BOOLEAN, t \in CliReports :
         /\ rc' = code * 256
         /\ executed' = Append(executed, [phase |-> "Runner", idx |-> 1, code |-> code])
         /\ existsArtifacts' = a
         /\ existsDefault' = d
         /\ tree' = IF a \/ d THEN t ELSE << >>
         /\ IF RunnerAborts(code * 256)
            THEN pc' = "Terminal" /\ exitCode' = code
            ELSE pc' = "LocateReport" /\ exitCode' = exitCode
    /\ UNCHANGED <<summary, junit, markdown, nPre, nPost, stepIdx, reportPath, smokeVars>>

\* Faulty variant: the default location under the runner's cwd is not tried.
ReportAtArtifactsOnly(a, d) == IF a THEN "artifacts" ELSE "none"

\* cli.py lines 60-66
ReportAt(a, d) == IF a THEN "artifacts" ELSE IF d THEN "default" ELSE "none"

\* cli.py lines 60-66
LocateReport ==
    /\ pc = "LocateReport"
    /\ reportPath' = ReportAt(existsArtifacts, existsDefault)
    /\ IF reportPath' = "none"
       THEN pc' = "Terminal" /\ exitCode' = 2      \* sys.exit(2)
       ELSE pc' = "Parsed" /\ exitCode' = exitCode
    /\ UNCHANGED <<reportVars, nPre, nPost, stepIdx, executed, rc, existsArtifacts,
                   existsDefault, smokeVars>>

\* cli.py lines 72-76
PrintSummary ==
    /\ pc = "Rendered"
    /\ rc # -1
    /\ pc' = "RunPost"
    /\ stepIdx' = 1
    /\ UNCHANGED <<exitCode, reportVars, nPre, nPost, executed, rc, existsArtifacts,
                   existsDefault, reportPath, smokeVars>>

\* cli.py lines 75-78
RunPostStep == RunStep("RunPost", nPost)

PostStepsDone == StepsDone("RunPost", nPost, "Decide")

\* cli.py lines 80-81; main returning is exit status 0
DecideExit(s) == IF s.failed > 0 THEN 1 ELSE 0

Decide ==
    /\ pc = "Decide"
    /\ exitCode' = DecideExit(summary[1])
    /\ pc' = "Terminal"
    /\ UNCHANGED <<reportVars, cliVars, smokeVars>>

NextCli ==
    \/ RunPreStep
    \/ PreStepsDone
    \/ InvokeRunner
    \/ LocateReport
    \/ Summarize
    \/ WriteMarkdown
    \/ WriteJunit
    \/ PrintSummary
    \/ RunPostStep
    \/ PostStepsDone
    \/ Decide

SpecCli == InitCli /\ [][NextCli]_vars

(***************************************************************************)
(* Properties of the orchestrator (SpecCli)                                *)
(***************************************************************************)

StepEntries == { i \in 1..Len(executed) : executed[i].phase \in {"RunPre", "RunPost"} }

NoStepFailed == \A i \in StepEntries : executed[i].code = 0

RunnerRan == \E i \in 1..Len(executed) : executed[i].phase = "Runner"

NumRun(phase) == Cardinality({ i \in 1..Len(executed) : executed[i].phase = phase })

ReportExists == existsArtifacts \/ existsDefault

C5_ExitTwoOnlyReportNotFound ==
    pc = "Terminal" =>
        /\ (exitCode = 2) <=> ~ReportExists
        /\ (exitCode = 1) => (summary # << >> /\ summary[1].failed > 0)

\* C5, amended: among the runs in which no pre- or post-step exited non-zero,
\* exit code 2 is exactly the report existing at neither location once the
\* runner has run, and exit code 1 occurs only when a result failed.  (A
\* failing step ends the run with the step's own exit code, 1 and 2 included.)
C5_ExitTwoOnlyReportNotFoundUnlessStepFailed ==
    (pc = "Terminal" /\ NoStepFailed) =>
        /\ (exitCode = 2) <=> (RunnerRan /\ ~ReportExists)
        /\ (exitCode = 1) => (summary # << >> /\ summary[1].failed > 0)

\* Pre-steps ran and exited zero, the runner left no report at either
\* location: exit code 2, nothing summarized.
C5_Witness ==
    /\ pc = "Terminal"
    /\ nPre > 0 /\ NumRun("RunPre") = nPre /\ NoStepFailed
    /\ RunnerRan /\ ~ReportExists
    /\ summary = << >>
    /\ exitCode = 2

\* The order in which a whole run starts its subprocesses.
FullOrder ==
    [i \in 1..nPre |-> <<"RunPre", i>>]
    \o << <<"Runner", 1>> >>
    \o [i \in 1..nPost |-> <<"RunPost", i>>]

\* C6: the commands run strictly in the order given (pre-steps, runner,
\* post-steps); once a step exits non-zero nothing runs after it and the
\* process has terminated with that step's exit code; so the runner is only
\* ever invoked after every pre-step ran and exited zero.
C6_StepsFailFast ==
    /\ Len(executed) <= Len(FullOrder)
    /\ \A i \in 1..Len(executed) :
         <<executed[i].phase, executed[i].idx>> = FullOrder[i]
    /\ \A i \in StepEntries :
         executed[i].code # 0 =>
             /\ i = Len(executed)
             /\ pc = "Terminal"
             /\ exitCode = executed[i].code
    /\ RunnerRan =>
         /\ NumRun("RunPre") = nPre
         /\ \A i \in StepEntries : executed[i].phase = "RunPre" => executed[i].code = 0

\* The first of two pre-steps exited with MaxExit: the second never ran, nor
\* did the runner, and the process ended with that code.
C6_Witness ==
    /\ pc = "Terminal"
    /\ nPre = 2
    /\ Len(executed) = 1
    /\ executed[1] = [phase |-> "RunPre", idx |-> 1, code |-> MaxExit]
    /\ exitCode = MaxExit
    /\ rc = -1

(***************************************************************************)
(* scripts/rls_smoke.py (SpecSmoke)                                        *)
(***************************************************************************)

\* Longest list of rows a response carries.
MaxRows == 2

\* JSON rows: objects with privacy_level "private" or "public", an object
\* without the field, and a row that is no object.
Rows ==
    { [isDict |-> TRUE, hasPrivacy |-> TRUE, privacy_level |-> "private"],
      [isDict |-> TRUE, hasPrivacy |-> TRUE, privacy_level |-> "public"],
      [isDict |-> TRUE, hasPrivacy |-> FALSE, privacy_level |-> Absent],
      [isDict |-> FALSE, hasPrivacy |-> FALSE, privacy_level |-> Absent] }

\* What urlopen does with a request: a 2xx response whose JSON body is a list
\* of rows or something else (an object); an HTTPError; another exception
\* (URLError, timeout).
Responses ==
    { [kind |-> "ok", status |-> 200, isList |-> TRUE, rows |-> r] :
        r \in UNION { [1..n -> Rows] : n \in 0..MaxRows } }
    \cup { [kind |-> "ok", status |-> 200, isList |-> FALSE, rows |-> << >>] }
    \cup { [kind |-> "http", status |-> c, isList |-> FALSE, rows |-> << >>] :
             c \in {401, 403, 500} }
    \cup { [kind |-> "neterr", status |-> 0, isList |-> FALSE, rows |-> << >>] }

InitSmoke ==
    /\ pc = "Start"
    /\ exitCode = -1
    /\ tree = << >> /\ summary = << >> /\ junit = << >> /\ markdown = << >>
    /\ CliIdle
    /\ configured \in BOOLEAN
    /\ anonResp \in Responses
    /\ srResp \in Responses
    /\ events = << >>
    /\ anonResult = << >>
    /\ srResult = << >>
    /\ logged = "none"

\* lines 35-37
CheckEnv ==
    /\ pc = "Start"
    /\ IF configured
       THEN pc' = "Issue1" /\ exitCode' = exitCode /\ logged' = logged
       ELSE pc' = "Terminal" /\ exitCode' = 2 /\ logged' = "missing-env"
    /\ UNCHANGED <<reportVars, cliVars, configured, anonResp, srResp, events,
                   anonResult, srResult>>

\* Faulty variant: the service_role request goes first.
FetchOrderServiceRoleFirst == <<"sr", "anon">>

\* lines 40-41: the keys in the order main fetches with them
FetchOrder == <<"anon", "sr">>

ResponseTo(key) == IF key = "anon" THEN anonResp ELSE srResp

\* lines 19-25: fetch builds the request and urlopen sends it
Issue(k) ==
    /\ pc = IF k = 1 THEN "Issue1" ELSE "Issue2"
    /\ events' = Append(events, [ev |-> "issued", key |-> FetchOrder[k]])
    /\ pc' = IF k = 1 THEN "Wait1" ELSE "Wait2"
    /\ UNCHANGED <<exitCode, reportVars, cliVars, configured, anonResp, srResp,
                   anonResult, srResult, logged>>

\* lines 28-32: what try_fetch returns for a response fetch got or an
\* HTTPError it raised
TryFetchResult(resp) ==
    IF resp.kind = "ok"
    THEN [isErr |-> FALSE, code |-> 0, isList |-> resp.isList, rows |-> resp.rows]
    ELSE [isErr |-> TRUE, code |-> resp.status, isList |-> FALSE, rows |-> << >>]

\* lines 31-32: the exceptions try_fetch catches
Caught(resp) == resp.kind = "http"

\* lines 25-32: urlopen returns or raises; an exception try_fetch does not
\* catch leaves main, and the interpreter exits with a traceback and status 1
Complete(k) ==
    /\ pc = IF k = 1 THEN "Wait1" ELSE "Wait2"
    /\ events' = Append(events, [ev |-> "completed", key |-> FetchOrder[k]])
    /\ LET resp == ResponseTo(FetchOrder[k])
           raised == resp.kind # "ok" /\ ~Caught(resp)
           res == IF raised THEN << >> ELSE << TryFetchResult(resp) >>
       IN /\ anonResult' = IF FetchOrder[k] = "anon" THEN res ELSE anonResult
          /\ srResult' = IF FetchOrder[k] = "sr" THEN res ELSE srResult
          /\ IF raised
             THEN pc' = "Terminal" /\ exitCode' = 1 /\ logged' = "traceback"
             ELSE /\ pc' = IF k = 1 THEN "Issue2" ELSE "Classify"
                  /\ exitCode' = exitCode
                  /\ logged' = logged
    /\ UNCHANGED <<reportVars, cliVars, configured, anonResp, srResp>>

IssueFirst == Issue(1)

CompleteFirst == Complete(1)

IssueSecond == Issue(2)

CompleteSecond == Complete(2)

\* lines 57-58
RowCount(data) == IF data.isList THEN Len(data.rows) ELSE 0

\* line 65
HasPrivacyColumn(data) ==
    RowCount(data) > 0 /\ data.rows[1].isDict /\ data.rows[1].hasPrivacy

\* Faulty variant: only the first row is inspected.
PrivateRowsFirstOnly(rows) ==
    { i \in {1} : rows[i].hasPrivacy /\ rows[i].privacy_level = "private" }

\* line 66: the rows r with r.get("privacy_level") == "private"
PrivateRows(rows) ==
    { i \in 1..Len(rows) : rows[i].hasPrivacy /\ rows[i].privacy_level = "private" }

\* line 66: r.get raises AttributeError on a row that is no object
GetRaises(rows) == \E i \in 1..Len(rows) : ~rows[i].isDict

\* lines 43-72: main's verdict from the two results
Verdict(anon, sr) ==
    IF sr.isErr THEN [exit |-> 1, log |-> "fail-service-role"]
    ELSE IF anon.isErr
    THEN IF anon.code \in {401, 403}
         THEN [exit |-> 0, log |-> "ok-anon-blocked"]
         ELSE [exit |-> 0, log |-> "warn-anon-error"]
    ELSE IF RowCount(anon) > RowCount(sr)
    THEN [exit |-> 1, log |-> "fail-anon-sees-more"]
    ELSE IF HasPrivacyColumn(anon) /\ GetRaises(anon.rows)
    THEN [exit |-> 1, log |-> "traceback"]
    ELSE IF HasPrivacyColumn(anon) /\ PrivateRows(anon.rows) # {}
    THEN [exit |-> 1, log |-> "fail-anon-sees-private"]
    ELSE [exit |-> 0, log |-> "ok"]

\* lines 43-72
Classify ==
    /\ pc = "Classify"
    /\ exitCode' = Verdict(anonResult[1], srResult[1]).exit
    /\ logged' = Verdict(anonResult[1], srResult[1]).log
    /\ pc' = "Terminal"
    /\ UNCHANGED <<reportVars, cliVars, configured, anonResp, srResp, events,
                   anonResult, srResult>>

NextSmoke ==
    \/ CheckEnv
    \/ IssueFirst
    \/ CompleteFirst
    \/ IssueSecond
    \/ CompleteSecond
    \/ Classify

SpecSmoke == InitSmoke /\ [][NextSmoke]_vars

(***************************************************************************)
(* Properties of the smoke check (SpecSmoke)                               *)
(***************************************************************************)

\* C7: when the service_role request succeeds and the anon request fails with
\* anything but 401/403 (another HTTP status, a timeout, a network error),
\* the check logs a warning and exits with code 0.
C7_OtherAnonErrorIsWarning ==
    ( /\ pc = "Terminal"
      /\ configured
      /\ srResp.kind = "ok"
      /\ anonResp.kind # "ok"
      /\ ~(anonResp.kind = "http" /\ anonResp.status \in {401, 403}) )
    => (exitCode = 0 /\ logged = "warn-anon-error")

\* C8: when both requests succeeded and the anon result is a list of objects
\* that all carry privacy_level, the check exits with code 1 if any row of the
\* anon result, at any position, is "private".
C8_PrivateRowFails ==
    ( /\ pc = "Terminal"
      /\ anonResult # << >> /\ srResult # << >>
      /\ ~anonResult[1].isErr /\ ~srResult[1].isErr
      /\ anonResult[1].isList
      /\ \A i \in 1..Len(anonResult[1].rows) :
           anonResult[1].rows[i].isDict /\ anonResult[1].rows[i].hasPrivacy
      /\ \E i \in 1..Len(anonResult[1].rows) :
           anonResult[1].rows[i].privacy_level = "private" )
    => exitCode = 1

\* anon sees a public row and then a private one, no more rows than
\* service_role: the check failed on the private row.
C8_Witness ==
    /\ pc = "Terminal"
    /\ anonResult # << >> /\ srResult # << >>
    /\ ~anonResult[1].isErr /\ ~srResult[1].isErr
    /\ Len(anonResult[1].rows) = 2
    /\ anonResult[1].rows[1].privacy_level = "public"
    /\ anonResult[1].rows[2].privacy_level = "private"
    /\ RowCount(srResult[1]) >= 2
    /\ logged = "fail-anon-sees-private"
    /\ exitCode = 1

IsPrefix(s, t) == Len(s) <= Len(t) /\ \A i \in 1..Len(s) : s[i] = t[i]

Sequential(first, second) ==
    << [ev |-> "issued", key |-> first], [ev |-> "completed", key |-> first],
       [ev |-> "issued", key |-> second], [ev |-> "completed", key |-> second] >>

\* C9 as stated: the two reads are sequential, the service_role request is
\* issued and completes first, and only then is the anon request issued.
C9_ServiceRoleThenAnon == IsPrefix(events, Sequential("sr", "anon"))

\* C9, amended: the two reads are sequential, the anon request is issued and
\* completes first, and only then is the service_role request issued.
C9_AnonThenServiceRole == IsPrefix(events, Sequential("anon", "sr"))

\* Both requests were issued and completed.
C9_Witness ==
    /\ pc = "Terminal"
    /\ Len(events) = 4
    /\ anonResult # << >> /\ srResult # << >>

=============================================================================
